---- MODULE Spec2Model ----
(***************************************************************************)
(* Daily typing challenge (monkeyy): the Badger key-value store of         *)
(* src/unnamed/part_000 (package data), its leaderboard ranking, and the   *)
(* Bubble Tea connection model of src/cmd/test/test-sentence.go.           *)
(*                                                                         *)
(*   Spec      the store under concurrent callers: every db.View and       *)
(*             db.Update transaction is one atomic step, the Go code       *)
(*             between two transactions works on the caller's locals.     *)
(*   SpecSort  GetLeaderBoard's ranking as a pure function of a record.    *)
(*   SpecConn  one connection: model.Update, one message at a time.        *)
(***************************************************************************)
EXTENDS Integers, Sequences, FiniteSets, TLC

VARIABLES
    today,        \* what getCurrentDateID() returns now (a day number)
    sentenceKV,   \* Badger keys "sentence:<date>"
    storeKV,      \* Badger keys "store:<date>" (a DBEntry)
    proc,         \* per caller: the call in flight, its locals and its result
    calls,        \* number of calls started so far
    overlapped,   \* history: overlapped[p] = callers whose call ran during p's call
    m,            \* the connection's Bubble Tea model (struct model)
    pending,      \* commands and timers in flight, per kind of message they deliver
    now,          \* the wall clock in whole seconds since the model was built
    alive,        \* FALSE once the program was told to quit
    handled,      \* history: the message Update handled last (its kind, or the key)
    typedBefore,  \* history: textUserTyped before the key press handled last
    submits       \* history: the submitSentenceCmd calls issued, in order

storeVars == <<today, sentenceKV, storeKV, proc, calls, overlapped>>
connVars == <<m, pending, now, alive, handled, typedBefore, submits>>
vars == <<storeVars, connVars>>

----------------------------------------------------------------------------
(* Bounds and input sets *)

NumProcs == 2      \* concurrent callers of the data package (connections, cron)
MaxCalls == 3      \* calls started in one behaviour

Procs == 1..NumProcs
Dates == {1, 2}    \* two consecutive days
UserIDs == {"u1", "u2"}
Usernames == {"player_a"}
Wpms == {40, 60}
\* the score caller p's typing session ended with
SessionWpm(p) == IF p = 1 THEN 40 ELSE 60
Sentences == {<<"a", "b">>, <<"b", "a">>}

\* getValue's error for a missing key (badger.ErrKeyNotFound)
KeyNotFound == "key not found"
\* the nil error
Nil == "nil"
ErrAlreadySubmitted == "user has already submitted a score today"

----------------------------------------------------------------------------
(* package data, Badger backend *)

\* type LeaderBoardEntry
LeaderBoardEntry(userID, username, wpm) ==
    [user_id |-> userID, username |-> username, wpm |-> wpm]

\* type DBEntry
DBEntry(dateId, userStats) == [date_id |-> dateId, user_stats |-> userStats]

\* var todayEntry DBEntry (the zero value; date 0 stands for "")
ZeroDBEntry == DBEntry(0, <<>>)

\* getCurrentDateID: the calendar day in America/Los_Angeles
getCurrentDateID == today

\* The key space of one prefix: kv[date] is <<>> while the key is absent and
\* <<value>> once it is set.
NoKeys == [d \in Dates |-> <<>>]

\* getValue(key, dest): one db.View; dest is left at its zero value on error
getValue(kv, key, zero) ==
    IF kv[key] = <<>> THEN [err |-> KeyNotFound, val |-> zero]
    ELSE [err |-> Nil, val |-> kv[key][1]]

\* setValue(key, value): one db.Update; the new key space
setValue(kv, key, value) == [kv EXCEPT ![key] = <<value>>]

\* the duplicate scan of SubmitSentence over the entry it read
\* (mutants: a scan that never reports, a scan that stops after one entry)
AlreadySubmittedNever(todayEntry, userID) == FALSE

AlreadySubmittedFirstOnly(todayEntry, userID) ==
    /\ todayEntry.user_stats # <<>>
    /\ todayEntry.user_stats[1].user_id = userID

AlreadySubmitted(todayEntry, userID) ==
    \E i \in DOMAIN todayEntry.user_stats :
        todayEntry.user_stats[i].user_id = userID

\* SubmitSentence's locals after getValue: a missing record reads as empty
SubmitLoaded(dateId, got) ==
    IF got.err # Nil THEN DBEntry(dateId, <<>>) ELSE got.val

\* the record SubmitSentence writes back
SubmitAppended(todayEntry, userID, username, wpm) ==
    [todayEntry EXCEPT
        !.user_stats = Append(@, LeaderBoardEntry(userID, username, wpm))]

----------------------------------------------------------------------------
(* sort.Slice as GetLeaderBoard calls it (lines 147-149).  The Go library   *)
(* routine behind it is pdqsort_func (sort/zsortfunc.go, Go 1.19 and later, *)
(* the toolchains badger/v4 builds with), entered with a = 0, b = len and   *)
(* limit = bits.Len(len).  Indices are Go's (0-based, [a, b)); element i of *)
(* the slice is s[i + 1].  The routine is modelled for slices shorter than  *)
(* shortestNinther = 50 whose limit never reaches 0 (every length below     *)
(* 16): the ninther pivot, the shifting passes of partialInsertionSort and  *)
(* the heapsort fallback belong to longer slices.                           *)

\* the closure passed to sort.Slice: entry x sorts before entry y
lessAscending(x, y) == x.wpm < y.wpm

less(x, y) == x.wpm > y.wpm

\* data.Less(i, j)
DataLess(s, i, j) == less(s[i + 1], s[j + 1])

\* data.Swap(i, j)
DataSwap(s, i, j) == [s EXCEPT ![i + 1] = s[j + 1], ![j + 1] = s[i + 1]]

\* const maxInsertion in pdqsort_func
maxInsertion == 12

RECURSIVE insertionShift(_, _, _)
\* the inner loop of insertionSort_func: for j := i; j > a && Less(j, j-1); j--
insertionShift(s, a, j) ==
    IF j > a /\ DataLess(s, j, j - 1)
    THEN insertionShift(DataSwap(s, j, j - 1), a, j - 1)
    ELSE s

RECURSIVE insertionSortFrom(_, _, _, _)
\* the outer loop of insertionSort_func: for i := a + 1; i < b; i++
insertionSortFrom(s, a, b, i) ==
    IF i < b THEN insertionSortFrom(insertionShift(s, a, i), a, b, i + 1) ELSE s

insertionSort_func(s, a, b) == insertionSortFrom(s, a, b, a + 1)

\* bits.Len(uint(n)) for n >= 0
RECURSIVE bitsLen(_)
bitsLen(n) == IF n = 0 THEN 0 ELSE 1 + bitsLen(n \div 2)

\* A uint64 as its 64 bits, bit 0 the lowest.
Word == 0..63
RECURSIVE pow2(_)
pow2(k) == IF k = 0 THEN 1 ELSE 2 * pow2(k - 1)
toUint64(n) == [i \in Word |-> IF i < 30 THEN (n \div pow2(i)) % 2 ELSE 0]
shl(r, k) == [i \in Word |-> IF i >= k THEN r[i - k] ELSE 0]
shr(r, k) == [i \in Word |-> IF i + k <= 63 THEN r[i + k] ELSE 0]
xor(r, q) == [i \in Word |-> (r[i] + q[i]) % 2]
RECURSIVE lowBits(_, _)
\* r & (1<<k - 1) as a number
lowBits(r, k) == IF k = 0 THEN 0 ELSE lowBits(r, k - 1) + r[k - 1] * pow2(k - 1)

\* func (r *xorshift) Next(): r ^= r << 13; r ^= r >> 7; r ^= r << 17
xorshiftNext(r) ==
    LET r1 == xor(r, shl(r, 13))
        r2 == xor(r1, shr(r1, 7))
    IN  xor(r2, shl(r2, 17))

RECURSIVE breakPatternsFrom(_, _, _, _, _, _)
\* the loop of breakPatterns_func: for i := 0; i < 3; i++
breakPatternsFrom(s, a, length, idx, random, i) ==
    IF i >= 3 THEN s
    ELSE LET next == xorshiftNext(random)
             masked == lowBits(next, bitsLen(length))
             other == IF masked >= length THEN masked - length ELSE masked
         IN  breakPatternsFrom(DataSwap(s, idx - 1 + i, a + other),
                               a, length, idx, next, i + 1)

\* breakPatterns_func(data, a, b)
breakPatterns_func(s, a, b) ==
    LET length == b - a
    IN  IF length >= 8
        THEN breakPatternsFrom(s, a, length, a + (length \div 4) * 2 - 1,
                               toUint64(length), 0)
        ELSE s

\* order2_func(data, a, b, swaps): <<x, y, swaps>>
order2_func(s, a, b, swaps) ==
    IF DataLess(s, b, a) THEN <<b, a, swaps + 1>> ELSE <<a, b, swaps>>

\* median_func(data, a, b, c, swaps): <<index of the median, swaps>>
median_func(s, a, b, c, swaps) ==
    LET o1 == order2_func(s, a, b, swaps)
        o2 == order2_func(s, o1[2], c, o1[3])
        o3 == order2_func(s, o1[1], o2[1], o2[3])
    IN  <<o3[2], o3[3]>>

\* choosePivot_func(data, a, b) for b - a < shortestNinther
choosePivot_func(s, a, b) ==
    LET l == b - a
        i == a + (l \div 4) * 1
        j == a + (l \div 4) * 2
        k == a + (l \div 4) * 3
        med == IF l >= 8 THEN median_func(s, i, j, k, 0) ELSE <<j, 0>>
    IN  [pivot |-> med[1],
         hint |-> IF med[2] = 0 THEN "increasing"
                  ELSE IF med[2] = 12 THEN "decreasing" ELSE "unknown"]

RECURSIVE reverseRangeFrom(_, _, _)
\* reverseRange_func(data, a, b): i := a, j := b - 1, swap while i < j
reverseRangeFrom(s, i, j) ==
    IF i < j THEN reverseRangeFrom(DataSwap(s, i, j), i + 1, j - 1) ELSE s

reverseRange_func(s, a, b) == reverseRangeFrom(s, a, b - 1)

\* partialInsertionSort_func(data, a, b) for b - a < shortestShifting: true
\* when no adjacent pair is out of order, false (data untouched) otherwise
partialInsertionSort_func(s, a, b) ==
    \A i \in (a + 1)..(b - 1) : ~DataLess(s, i, i - 1)

RECURSIVE skipLess(_, _, _, _)
\* for i <= j && data.Less(i, a) { i++ }
skipLess(s, a, i, j) ==
    IF i <= j /\ DataLess(s, i, a) THEN skipLess(s, a, i + 1, j) ELSE i

RECURSIVE skipNotLess(_, _, _, _)
\* for i <= j && !data.Less(j, a) { j-- }
skipNotLess(s, a, i, j) ==
    IF i <= j /\ ~DataLess(s, j, a) THEN skipNotLess(s, a, i, j - 1) ELSE j

RECURSIVE partitionLoop(_, _, _, _)
\* the for loop of partition_func, the pivot at a: <<data, j>>
partitionLoop(s, a, i, j) ==
    LET i1 == skipLess(s, a, i, j)
        j1 == skipNotLess(s, a, i1, j)
    IN  IF i1 > j1 THEN <<s, j1>>
        ELSE partitionLoop(DataSwap(s, i1, j1), a, i1 + 1, j1 - 1)

\* partition_func(data, a, b, pivot): [s, mid, already]
partition_func(s, a, b, pivot) ==
    LET s0 == DataSwap(s, a, pivot)
        i1 == skipLess(s0, a, a + 1, b - 1)
        j1 == skipNotLess(s0, a, i1, b - 1)
    IN  IF i1 > j1
        THEN [s |-> DataSwap(s0, j1, a), mid |-> j1, already |-> TRUE]
        ELSE LET r == partitionLoop(DataSwap(s0, i1, j1), a, i1 + 1, j1 - 1)
             IN  [s |-> DataSwap(r[1], r[2], a), mid |-> r[2], already |-> FALSE]

RECURSIVE skipNotGreater(_, _, _, _)
\* for i <= j && !data.Less(a, i) { i++ }
skipNotGreater(s, a, i, j) ==
    IF i <= j /\ ~DataLess(s, a, i) THEN skipNotGreater(s, a, i + 1, j) ELSE i

RECURSIVE skipGreater(_, _, _, _)
\* for i <= j && data.Less(a, j) { j-- }
skipGreater(s, a, i, j) ==
    IF i <= j /\ DataLess(s, a, j) THEN skipGreater(s, a, i, j - 1) ELSE j

RECURSIVE partitionEqualLoop(_, _, _, _)
\* the for loop of partitionEqual_func: <<data, i>>
partitionEqualLoop(s, a, i, j) ==
    LET i1 == skipNotGreater(s, a, i, j)
        j1 == skipGreater(s, a, i1, j)
    IN  IF i1 > j1 THEN <<s, i1>>
        ELSE partitionEqualLoop(DataSwap(s, i1, j1), a, i1 + 1, j1 - 1)

\* partitionEqual_func(data, a, b, pivot): <<data, newpivot>>
partitionEqual_func(s, a, b, pivot) ==
    partitionEqualLoop(DataSwap(s, a, pivot), a, a + 1, b - 1)

RECURSIVE pdqsort_func(_, _, _, _, _, _)
\* pdqsort_func(data, a, b, limit); wasBalanced and wasPartitioned are the
\* loop's locals, true on entry
pdqsort_func(s, a, b, limit, wasBalanced, wasPartitioned) ==
    LET length == b - a
    IN  IF length <= maxInsertion THEN insertionSort_func(s, a, b)
        ELSE
        LET s1 == IF ~wasBalanced THEN breakPatterns_func(s, a, b) ELSE s
            limit1 == IF ~wasBalanced THEN limit - 1 ELSE limit
            cp == choosePivot_func(s1, a, b)
            dec == cp.hint = "decreasing"
            s2 == IF dec THEN reverseRange_func(s1, a, b) ELSE s1
            pivot == IF dec THEN (b - 1) - (cp.pivot - a) ELSE cp.pivot
            hint == IF dec THEN "increasing" ELSE cp.hint
        IN  IF /\ wasBalanced /\ wasPartitioned /\ hint = "increasing"
               /\ partialInsertionSort_func(s2, a, b)
            THEN s2
            ELSE IF a > 0 /\ ~DataLess(s2, a - 1, pivot)
            THEN LET pe == partitionEqual_func(s2, a, b, pivot)
                 IN  pdqsort_func(pe[1], pe[2], b, limit1,
                                  wasBalanced, wasPartitioned)
            ELSE LET pt == partition_func(s2, a, b, pivot)
                     leftLen == pt.mid - a
                     rightLen == b - pt.mid
                     balanceThreshold == length \div 8
                 IN  IF leftLen < rightLen
                     THEN pdqsort_func(
                            pdqsort_func(pt.s, a, pt.mid, limit1, TRUE, TRUE),
                            pt.mid + 1, b, limit1,
                            leftLen >= balanceThreshold, pt.already)
                     ELSE pdqsort_func(
                            pdqsort_func(pt.s, pt.mid + 1, b, limit1, TRUE, TRUE),
                            a, pt.mid, limit1,
                            rightLen >= balanceThreshold, pt.already)

\* sort.Slice(x, less)
sortSlice(s) == pdqsort_func(s, 0, Len(s), bitsLen(Len(s)), TRUE, TRUE)

\* type LeaderBoardResponse
LeaderBoardResponse(dateId, entries) ==
    [date_id |-> dateId, leaderboard_entries |-> entries]

\* GetLeaderBoard, lines 131-155, on the key space kv at date dateId
GetLeaderBoard(kv, dateId) ==
    LET got == getValue(kv, dateId, ZeroDBEntry)
    IN  IF got.err # Nil
        THEN [resp |-> LeaderBoardResponse(dateId, <<>>), err |-> Nil]
        ELSE [resp |-> LeaderBoardResponse(dateId, sortSlice(got.val.user_stats)),
              err |-> Nil]

\* GetUserChallengeStatus, lines 112-129
\* (mutant: the getValue error is handed to the caller)
GetUserChallengeStatusStrict(kv, dateId, userID) ==
    LET got == getValue(kv, dateId, ZeroDBEntry)
    IN  IF got.err # Nil THEN [played |-> FALSE, err |-> got.err]
        ELSE [played |-> \E i \in DOMAIN got.val.user_stats :
                            got.val.user_stats[i].user_id = userID,
              err |-> Nil]

GetUserChallengeStatus(kv, dateId, userID) ==
    LET got == getValue(kv, dateId, ZeroDBEntry)
    IN  IF got.err # Nil THEN [played |-> FALSE, err |-> Nil]
        ELSE [played |-> \E i \in DOMAIN got.val.user_stats :
                            got.val.user_stats[i].user_id = userID,
              err |-> Nil]

\* GetTodaysSentence, lines 157-167
GetTodaysSentence(kv, dateId) ==
    LET got == getValue(kv, dateId, <<>>)
    IN  IF got.err # Nil THEN [sentence |-> <<>>, err |-> "no sentence for today"]
        ELSE [sentence |-> got.val, err |-> Nil]

----------------------------------------------------------------------------
\* history: the entries stored under a date (none while the key is absent)
Entries(kv, d) == IF kv[d] = <<>> THEN <<>> ELSE kv[d][1].user_stats

\* history: the stored record of date d holds an entry of userID
HasEntry(kv, d, userID) ==
    \E i \in DOMAIN Entries(kv, d) : Entries(kv, d)[i].user_id = userID

\* what a read call handed back: GetUserChallengeStatus fills played,
\* GetLeaderBoard fills entries
NoReply == [played |-> FALSE, entries |-> <<>>, err |-> Nil]

\* A caller's record: pc and the locals of the call in flight; once the call
\* has returned ("done") only its arguments of interest and its result stay.
Idle == [pc |-> "idle", op |-> "none", dateId |-> 0, userID |-> "", username |-> "",
         wpm |-> 0, sentence |-> <<>>, todayEntry |-> ZeroDBEntry,
         hadEntry |-> FALSE, ret |-> Nil, reply |-> NoReply,
         totalWords |-> 0, fetches |-> 0]

Running(p) == proc[p].pc \notin {"idle", "done"}

\* history: p starts a call while the callers in flight keep running
Overlap(p) ==
    LET inflight == {q \in Procs \ {p} : Running(q)}
    IN  [q \in Procs |->
            IF q = p THEN inflight
            ELSE IF q \in inflight THEN overlapped[q] \cup {p}
            ELSE overlapped[q]]

CanStart(p) == ~Running(p) /\ calls < MaxCalls

\* SubmitSentence, lines 170-180: dateId, key, getValue
SubmitRead(p, userID, username, wpm) ==
    /\ CanStart(p)
    /\ LET dateId == getCurrentDateID
           got == getValue(storeKV, dateId, ZeroDBEntry)
       IN  proc' = [proc EXCEPT ![p] =
                [Idle EXCEPT !.pc = "submit_check", !.op = "submit",
                             !.dateId = dateId, !.userID = userID,
                             !.username = username, !.wpm = wpm,
                             !.todayEntry = SubmitLoaded(dateId, got),
                             !.hadEntry = HasEntry(storeKV, dateId, userID)]]
    /\ calls' = calls + 1
    /\ overlapped' = Overlap(p)
    /\ UNCHANGED <<today, sentenceKV, storeKV>>
    /\ UNCHANGED connVars

\* SubmitSentence, lines 182-194: duplicate scan, append, setValue
SubmitWrite(p) ==
    /\ proc[p].pc = "submit_check"
    /\ IF AlreadySubmitted(proc[p].todayEntry, proc[p].userID)
       THEN /\ proc' = [proc EXCEPT ![p].pc = "done",
                                    ![p].username = "", ![p].wpm = 0,
                                    ![p].todayEntry = ZeroDBEntry,
                                    ![p].ret = ErrAlreadySubmitted]
            /\ UNCHANGED storeKV
       ELSE LET e == SubmitAppended(proc[p].todayEntry, proc[p].userID,
                                    proc[p].username, proc[p].wpm)
            IN  /\ storeKV' = setValue(storeKV, proc[p].dateId, e)
                /\ proc' = [proc EXCEPT ![p].pc = "done", ![p].ret = Nil,
                                        ![p].username = "", ![p].wpm = 0,
                                        ![p].todayEntry = ZeroDBEntry]
    /\ UNCHANGED <<today, sentenceKV, calls, overlapped>>
    /\ UNCHANGED connVars

\* InsertSentence, lines 198-204: setValue(sentenceKey, sentence)
InsertSetSentence(p, sentence) ==
    /\ CanStart(p)
    /\ LET dateId == getCurrentDateID
       IN  /\ sentenceKV' = setValue(sentenceKV, dateId, sentence)
           /\ proc' = [proc EXCEPT ![p] =
                    [Idle EXCEPT !.pc = "insert_read", !.op = "insert",
                                 !.dateId = dateId, !.sentence = sentence]]
    /\ calls' = calls + 1
    /\ overlapped' = Overlap(p)
    /\ UNCHANGED <<today, storeKV>>
    /\ UNCHANGED connVars

\* InsertSentence, lines 206-207: getValue(storeKey)
InsertRead(p) ==
    /\ proc[p].pc = "insert_read"
    /\ LET got == getValue(storeKV, proc[p].dateId, ZeroDBEntry)
       IN  proc' = [proc EXCEPT
                ![p].pc = IF got.err # Nil THEN "insert_write" ELSE "done",
                ![p].ret = Nil]
    /\ UNCHANGED <<today, sentenceKV, storeKV, calls, overlapped>>
    /\ UNCHANGED connVars

\* InsertSentence, lines 208-214: the record was missing, write an empty one
InsertWrite(p) ==
    /\ proc[p].pc = "insert_write"
    /\ LET e == DBEntry(proc[p].dateId, <<>>)
       IN  /\ storeKV' = setValue(storeKV, proc[p].dateId, e)
           /\ proc' = [proc EXCEPT ![p].pc = "done", ![p].ret = Nil,
                                   ![p].todayEntry = ZeroDBEntry]
    /\ UNCHANGED <<today, sentenceKV, calls, overlapped>>
    /\ UNCHANGED connVars

\* a caller runs GetUserChallengeStatus(userID): one db.View
StatusCall(p, userID) ==
    /\ CanStart(p)
    /\ LET dateId == getCurrentDateID
           r == GetUserChallengeStatus(storeKV, dateId, userID)
       IN  proc' = [proc EXCEPT ![p] =
                [Idle EXCEPT !.pc = "done", !.op = "status", !.dateId = dateId,
                             !.userID = userID,
                             !.reply = [played |-> r.played, entries |-> <<>>,
                                        err |-> r.err]]]
    /\ calls' = calls + 1
    /\ overlapped' = Overlap(p)
    /\ UNCHANGED <<today, sentenceKV, storeKV>>
    /\ UNCHANGED connVars

\* a caller runs GetLeaderBoard(): one db.View, then the sort of its copy
BoardCall(p) ==
    /\ CanStart(p)
    /\ LET dateId == getCurrentDateID
           r == GetLeaderBoard(storeKV, dateId)
       IN  proc' = [proc EXCEPT ![p] =
                [Idle EXCEPT !.pc = "done", !.op = "board", !.dateId = dateId,
                             !.reply = [played |-> FALSE,
                                        entries |-> r.resp.leaderboard_entries,
                                        err |-> r.err]]]
    /\ calls' = calls + 1
    /\ overlapped' = Overlap(p)
    /\ UNCHANGED <<today, sentenceKV, storeKV>>
    /\ UNCHANGED connVars

\* midnight in America/Los_Angeles: getCurrentDateID moves to the next day
Midnight ==
    /\ today + 1 \in Dates
    /\ today' = today + 1
    /\ UNCHANGED <<sentenceKV, storeKV, proc, calls, overlapped>>
    /\ UNCHANGED connVars

----------------------------------------------------------------------------
(* The connection as constructed (src/cmd/test/test-sentence.go).  Strings  *)
(* the handlers index into are sequences of one-character strings; every    *)
(* character of the model is ASCII, so a byte index is a rune index.        *)

\* "Loading sentence...", the placeholder target, shortened to its first and
\* last character
LoadingSentence == <<"L", ".">>

\* kinds of message a command or timer in flight delivers
MsgKinds == {"status", "sentence", "tick", "board", "poll", "submitted"}
NoCmd == "none"
Quit == "quit"
NoPending == [k \in MsgKinds |-> 0]

NewModelWithStyles ==
    [hasUserAlreadyDoneDailyChallenge |-> FALSE,
     userSetUsername    |-> FALSE,
     username           |-> <<>>,
     usernameInput      |-> <<>>,
     textToType         |-> LoadingSentence,
     textUserTyped      |-> <<>>,
     WPM                |-> 0,
     startTime          |-> 0,
     didUserStartTyping |-> FALSE]

\* no connection has been opened
NoConnection ==
    /\ m = NewModelWithStyles
    /\ pending = NoPending
    /\ now = 0
    /\ alive = FALSE
    /\ handled = NoCmd
    /\ typedBefore = <<>>
    /\ submits = <<>>

StoreInit ==
    /\ today = 1
    /\ sentenceKV = NoKeys
    /\ storeKV = NoKeys
    /\ proc = [p \in Procs |-> Idle]
    /\ calls = 0
    /\ overlapped = [p \in Procs |-> {}]
    /\ NoConnection

Init == StoreInit

Next ==
    \/ \E p \in Procs, u \in UserIDs, n \in Usernames :
            SubmitRead(p, u, n, SessionWpm(p))
    \/ \E p \in Procs : SubmitWrite(p)
    \/ \E p \in Procs, s \in Sentences : InsertSetSentence(p, s)
    \/ \E p \in Procs : InsertRead(p)
    \/ \E p \in Procs : InsertWrite(p)
    \/ \E p \in Procs, u \in UserIDs : StatusCall(p, u)
    \/ \E p \in Procs : BoardCall(p)
    \/ Midnight

Spec == Init /\ [][Next]_vars

----------------------------------------------------------------------------
(* Properties of the store (Spec) *)

Done(p, op) == proc[p].pc = "done" /\ proc[p].op = op

\* the calls of p and q that have returned ran concurrently
RanConcurrently(p, q) == q \in overlapped[p] /\ p \in overlapped[q]

\* number of entries of userID among s
CountUser(s, userID) == Cardinality({i \in DOMAIN s : s[i].user_id = userID})

IsPrefix(s, t) == Len(s) <= Len(t) /\ SubSeq(t, 1, Len(s)) = s

\* C1: when two SubmitSentence calls for the same userID and the same date
\* run concurrently, exactly one returns nil and the other returns the
\* already-submitted error.
C1_ConcurrentSubmitsOneWins ==
    \A p, q \in Procs :
        ( /\ p # q /\ Done(p, "submit") /\ Done(q, "submit")
          /\ RanConcurrently(p, q)
          /\ proc[p].dateId = proc[q].dateId
          /\ proc[p].userID = proc[q].userID )
        => \/ proc[p].ret = Nil /\ proc[q].ret = ErrAlreadySubmitted
           \/ proc[q].ret = Nil /\ proc[p].ret = ErrAlreadySubmitted

\* C2: in every reachable state, under any interleaving of SubmitSentence
\* and InsertSentence calls, the record stored for a date never contains two
\* entries with the same userID.
C2_UniqueUserIDs ==
    \A d \in Dates : \A i, j \in DOMAIN Entries(storeKV, d) :
        Entries(storeKV, d)[i].user_id = Entries(storeKV, d)[j].user_id => i = j

\* C2 witness: a record of two entries stands after a duplicate submission
\* was turned away.
C2_Witness ==
    \E p \in Procs :
        /\ Done(p, "submit") /\ proc[p].ret = ErrAlreadySubmitted
        /\ Len(Entries(storeKV, proc[p].dateId)) = 2

\* C3: once SubmitSentence(u) has returned nil for a date, a
\* GetUserChallengeStatus(u) on that date returns true and a GetLeaderBoard
\* on that date holds exactly one entry of u.
C3_AcceptedSubmissionStays ==
    \A p \in Procs :
        (Done(p, "submit") /\ proc[p].ret = Nil /\ today = proc[p].dateId)
        => /\ GetUserChallengeStatus(storeKV, getCurrentDateID, proc[p].userID).played
           /\ CountUser(GetLeaderBoard(storeKV, getCurrentDateID)
                            .resp.leaderboard_entries, proc[p].userID) = 1

\* C4: a SubmitSentence for a (date, userID) that already has an entry
\* returns the already-submitted error and leaves the stored record of that
\* date exactly as it was.
C4_DuplicateRejectedUntouched ==
    [][\A p \in Procs :
        ( /\ proc[p].pc = "submit_check" /\ proc[p].hadEntry
          /\ proc'[p].pc = "done" )
        => /\ proc'[p].ret = ErrAlreadySubmitted
           /\ storeKV' = storeKV]_storeVars

\* C4 witness: a submission that found its user's entry has returned.
C4_Witness ==
    \E p \in Procs :
        /\ Done(p, "submit") /\ proc[p].hadEntry
        /\ Len(Entries(storeKV, proc[p].dateId)) = 2

\* C5: a date's record changes only by appending: in every step the previous
\* entries list is a prefix of the new entries list.
C5_RecordOnlyAppends ==
    [][\A d \in Dates : IsPrefix(Entries(storeKV, d), Entries(storeKV', d))]_storeVars

\* C6: once a sentence has been stored for a date, no later InsertSentence
\* call for that date changes the stored sentence text.
C6_SentenceNeverChanges ==
    [][\A d \in Dates : sentenceKV[d] # <<>> => sentenceKV'[d] = sentenceKV[d]]_storeVars

\* C9: while no record exists for the current date, GetLeaderBoard returns
\* an empty entry list with no error, GetUserChallengeStatus returns false
\* with no error, and neither call creates or modifies a stored key.
C9_ReadsOfMissingRecord ==
    [][\A p \in Procs :
        ( /\ calls' = calls + 1 /\ proc'[p] # proc[p]
          /\ proc'[p].op \in {"status", "board"}
          /\ storeKV[today] = <<>> )
        => /\ proc'[p].reply = [played |-> FALSE, entries |-> <<>>, err |-> Nil]
           /\ sentenceKV' = sentenceKV
           /\ storeKV' = storeKV]_storeVars

\* C9 witness: both reads have returned for a date that has no record.
C9_Witness ==
    \E p, q \in Procs :
        /\ Done(p, "status") /\ Done(q, "board")
        /\ proc[p].dateId = proc[q].dateId
        /\ storeKV[proc[p].dateId] = <<>>

\* C31: for every date, the sentence key is present exactly when the record
\* key is present, in every state between two transactions of the store
C31_SentenceAndRecordTogether ==
    \A d \in Dates : (sentenceKV[d] # <<>>) <=> (storeKV[d] # <<>>)

----------------------------------------------------------------------------
(* SpecSort: GetLeaderBoard over every record of up to MaxEntries entries.  *)
(* The i-th entry of a record is the i-th submission (user_id i).           *)

MaxEntries == 13

\* the record of n submissions with scores w[1], ..., w[n]
SortRecord(n, w) == [i \in 1..n |-> LeaderBoardEntry(i, "player_a", w[i])]

SortInit ==
    /\ today = 1
    /\ sentenceKV = NoKeys
    /\ \E n \in 0..MaxEntries : \E w \in [1..n -> Wpms] :
            storeKV = [NoKeys EXCEPT ![1] = <<DBEntry(1, SortRecord(n, w))>>]
    /\ proc = [p \in Procs |-> Idle]
    /\ calls = 0
    /\ overlapped = [p \in Procs |-> {}]
    /\ NoConnection

SortNext == calls = 0 /\ BoardCall(1)

SpecSort == SortInit /\ [][SortNext]_vars

----------------------------------------------------------------------------
(* Properties of the ranking (SpecSort) *)

Count(s, e) == Cardinality({i \in DOMAIN s : s[i] = e})

IsPermutation(s, t) ==
    /\ Len(s) = Len(t)
    /\ \A i \in DOMAIN s : Count(s, s[i]) = Count(t, s[i])

\* position of entry e in the stored record s (its submission order)
Position(s, e) == CHOOSE i \in DOMAIN s : s[i] = e

\* C7: the sequence returned by GetLeaderBoard is a permutation of the
\* record's entries ordered by WPM non-increasing.
C7_RankedPermutation ==
    \A p \in Procs : Done(p, "board") =>
        LET out == proc[p].reply.entries
        IN  /\ IsPermutation(Entries(storeKV, proc[p].dateId), out)
            /\ \A i \in 1..(Len(out) - 1) : out[i].wpm >= out[i + 1].wpm

\* C7 witness: GetLeaderBoard returned a ranking that differs from the
\* stored order of a record longer than maxInsertion.
C7_Witness ==
    \E p \in Procs :
        /\ Done(p, "board")
        /\ Len(proc[p].reply.entries) > maxInsertion
        /\ proc[p].reply.entries # Entries(storeKV, proc[p].dateId)

\* C8: in the sequence returned by GetLeaderBoard any two entries with equal
\* WPM appear in the order in which they were submitted.
C8_TiesKeepSubmissionOrder ==
    \A p \in Procs : Done(p, "board") =>
        LET out == proc[p].reply.entries
            rec == Entries(storeKV, proc[p].dateId)
        IN  \A i, j \in DOMAIN out :
                (i < j /\ out[i].wpm = out[j].wpm)
                => Position(rec, out[i]) < Position(rec, out[j])

----------------------------------------------------------------------------
(* SpecConn: one connection of src/cmd/test/test-sentence.go.  Update       *)
(* handles one message at a time; a command it returns runs on its own and  *)
(* delivers its message later, in any order with the others.  The store's   *)
(* answers are inputs here: each delivery draws one.                        *)

MaxClock == 3      \* seconds the clock runs

\* sentences GetTodaysSentence can answer with
Targets == {<<"a", "h">>, <<"a", "\n", "h">>}
\* msg.String() of the key presses
CharKeys == {"a", "h", "+"}
NamedKeys == {"backspace", "enter", "left", "ctrl+c"}
Keys == CharKeys \cup NamedKeys
\* values the username text input can hold after a key press
NameInputs == {<<"p", "l", "a", "y">>,
               <<"p", "l", "a", "y", "e", "r">>,
               <<" ", "p", "l", "a", "y", "e", "r">>,
               <<"p", "l", "a", " ", "y", "e", "r">>}

\* unicode classes of the characters that occur
IsLetter(c) == c \in {"a", "h", "L", "p", "l", "y", "e", "r"}
IsNumber(c) == c \in {"7"}
IsPunct(c) == c \in {".", "_", "-"}
IsSpace(c) == c \in {" ", "\n"}

RECURSIVE TrimLeft(_)
TrimLeft(s) == IF s # <<>> /\ IsSpace(Head(s)) THEN TrimLeft(Tail(s)) ELSE s
RECURSIVE TrimRight(_)
TrimRight(s) ==
    IF s # <<>> /\ IsSpace(s[Len(s)]) THEN TrimRight(SubSeq(s, 1, Len(s) - 1)) ELSE s
TrimSpace(s) == TrimRight(TrimLeft(s))

\* pairs <<correct characters, elapsed seconds>> at which the float64
\* quotient correct / 5.0 / Minutes() falls just below the next integer
FloatShort ==
    {<<3, 3>>, <<3, 6>>, <<3, 12>>, <<6, 3>>, <<6, 6>>, <<6, 12>>, <<7, 3>>,
     <<7, 6>>, <<7, 7>>, <<7, 12>>, <<12, 3>>, <<12, 6>>, <<12, 12>>}
\* int(float64(correct) / 5.0 / time.Since(startTime).Minutes()), elapsed in
\* whole seconds, for correct <= 12 and elapsed <= 12
wordsPerMinute(correct, elapsed) ==
    ((12 * correct) \div elapsed) - (IF <<correct, elapsed>> \in FloatShort THEN 1 ELSE 0)

totalCorrectCharactersTyped(mm) ==
    Cardinality({i \in 1..Len(mm.textUserTyped) :
                    i <= Len(mm.textToType) /\ mm.textUserTyped[i] = mm.textToType[i]})

didUserFinishTypingLengthOnly(mm) ==
    Len(mm.textUserTyped) = Len(mm.textToType)

didUserFinishTyping(mm) ==
    Len(mm.textUserTyped) = Len(mm.textToType) /\ mm.textUserTyped = mm.textToType

\* case tickMsg that schedules the next tick whatever the already-played
\* flag says
UpdateTickAlwaysRearm(mm, t) ==
    LET elapsed == t - mm.startTime
        m1 == IF mm.didUserStartTyping /\ elapsed > 0
              THEN [mm EXCEPT !.WPM = wordsPerMinute(totalCorrectCharactersTyped(mm), elapsed)]
              ELSE mm
    IN  IF mm.didUserStartTyping /\ didUserFinishTyping(m1)
           /\ ~m1.hasUserAlreadyDoneDailyChallenge
        THEN [m |-> [m1 EXCEPT !.hasUserAlreadyDoneDailyChallenge = TRUE], cmd |-> "submitted"]
        ELSE [m |-> m1, cmd |-> "tick"]

\* case tickMsg without the test of the already-played flag
UpdateTickNoFlagTest(mm, t) ==
    LET elapsed == t - mm.startTime
        m1 == IF mm.didUserStartTyping /\ elapsed > 0
              THEN [mm EXCEPT !.WPM = wordsPerMinute(totalCorrectCharactersTyped(mm), elapsed)]
              ELSE mm
    IN  IF mm.didUserStartTyping /\ didUserFinishTyping(m1)
        THEN [m |-> [m1 EXCEPT !.hasUserAlreadyDoneDailyChallenge = TRUE], cmd |-> "submitted"]
        ELSE [m |-> m1,
              cmd |-> IF ~m1.hasUserAlreadyDoneDailyChallenge THEN "tick" ELSE NoCmd]

\* case tickMsg without the guard on the elapsed time: a tick at elapsed zero
\* overwrites WPM
UpdateTickUnguarded(mm, t) ==
    LET elapsed == t - mm.startTime
        m1 == IF mm.didUserStartTyping
              THEN [mm EXCEPT !.WPM = IF elapsed > 0
                                      THEN wordsPerMinute(totalCorrectCharactersTyped(mm), elapsed)
                                      ELSE 0]
              ELSE mm
    IN  IF mm.didUserStartTyping /\ didUserFinishTyping(m1)
           /\ ~m1.hasUserAlreadyDoneDailyChallenge
        THEN [m |-> [m1 EXCEPT !.hasUserAlreadyDoneDailyChallenge = TRUE], cmd |-> "submitted"]
        ELSE [m |-> m1,
              cmd |-> IF ~m1.hasUserAlreadyDoneDailyChallenge THEN "tick" ELSE NoCmd]

\* case tickMsg of Update, at clock t: the new model and the command returned
UpdateTick(mm, t) ==
    LET elapsed == t - mm.startTime
        m1 == IF mm.didUserStartTyping /\ elapsed > 0
              THEN [mm EXCEPT !.WPM = wordsPerMinute(totalCorrectCharactersTyped(mm), elapsed)]
              ELSE mm
    IN  IF mm.didUserStartTyping /\ didUserFinishTyping(m1)
           /\ ~m1.hasUserAlreadyDoneDailyChallenge
        THEN [m |-> [m1 EXCEPT !.hasUserAlreadyDoneDailyChallenge = TRUE], cmd |-> "submitted"]
        ELSE [m |-> m1,
              cmd |-> IF ~m1.hasUserAlreadyDoneDailyChallenge THEN "tick" ELSE NoCmd]

\* the username check of the "enter" key
validUsername(username) ==
    /\ Len(username) >= 6
    /\ Len(username) <= 20
    /\ \A i \in 1..Len(username) :
           IsLetter(username[i]) \/ IsNumber(username[i]) \/ username[i] \in {"_", "-"}

UpdateKeyUsername(mm, key, input) ==
    IF key = "enter"
    THEN LET username == TrimSpace(mm.usernameInput)
         IN  IF validUsername(username)
             THEN [mm EXCEPT !.username = username, !.userSetUsername = TRUE]
             ELSE mm
    ELSE [mm EXCEPT !.usernameInput = input]

\* a backspace that removes the last character only
UpdateKeyBackspaceOneChar(mm) ==
    LET typed == mm.textUserTyped
        m1 == [mm EXCEPT !.didUserStartTyping = TRUE]
    IN  IF Len(typed) = 0 THEN m1
        ELSE [m1 EXCEPT !.textUserTyped = SubSeq(typed, 1, Len(typed) - 1)]

UpdateKeyBackspace(mm) ==
    LET typed == mm.textUserTyped
        cut == SubSeq(typed, 1, Len(typed) - 1)
        m1 == [mm EXCEPT !.didUserStartTyping = TRUE]
    IN  IF Len(typed) = 0 THEN m1
        ELSE IF Len(cut) > 0 /\ cut[Len(cut)] = "\n"
             THEN [m1 EXCEPT !.textUserTyped = SubSeq(cut, 1, Len(cut) - 1)]
             ELSE [m1 EXCEPT !.textUserTyped = cut]

UpdateKeyChar(mm, key, t) ==
    LET typed == mm.textUserTyped
        target == mm.textToType
        m1 == [mm EXCEPT !.didUserStartTyping = TRUE]
        m2 == IF Len(typed) = 0 THEN [m1 EXCEPT !.startTime = t] ELSE m1
        withBreak == Append(typed, "\n")
    IN  IF IsLetter(key) \/ IsPunct(key) \/ IsSpace(key) \/ IsNumber(key)
        THEN IF Len(typed) < Len(target)
             THEN IF target[Len(typed) + 1] = "\n"
                  THEN IF Len(withBreak) < Len(target)
                       THEN [m2 EXCEPT !.textUserTyped = Append(withBreak, key)]
                       ELSE [m2 EXCEPT !.textUserTyped = withBreak]
                  ELSE [m2 EXCEPT !.textUserTyped = Append(typed, key)]
             ELSE m2
        ELSE m1

\* case tea.KeyMsg of Update; input is what the text input holds after the key
UpdateKey(mm, key, input, t) ==
    IF key = "ctrl+c" THEN [m |-> mm, cmd |-> Quit]
    ELSE IF mm.hasUserAlreadyDoneDailyChallenge /\ key \in {"left", "h"}
    THEN [m |-> mm, cmd |-> NoCmd]
    ELSE IF ~mm.userSetUsername
    THEN [m |-> UpdateKeyUsername(mm, key, input), cmd |-> NoCmd]
    ELSE IF key = "backspace" THEN [m |-> UpdateKeyBackspace(mm), cmd |-> NoCmd]
    ELSE IF key \in CharKeys THEN [m |-> UpdateKeyChar(mm, key, t), cmd |-> NoCmd]
    ELSE [m |-> mm, cmd |-> NoCmd]

\* the commands in flight after Update took the message of kind k and
\* returned cmd
Dispatch(k, cmd) ==
    LET taken == [pending EXCEPT ![k] = @ - 1]
    IN  IF cmd \in MsgKinds THEN [taken EXCEPT ![cmd] = @ + 1] ELSE taken

SubmitCall(mm) == [username |-> mm.username, wpm |-> mm.WPM,
                   typed |-> mm.textUserTyped, target |-> mm.textToType]

Deliverable(k) == alive /\ pending[k] > 0

\* userDailyChallengeStatusReceivedMsg
StatusReceived(played) ==
    /\ Deliverable("status")
    /\ m' = [m EXCEPT !.hasUserAlreadyDoneDailyChallenge = played]
    /\ pending' = Dispatch("status", "board")
    /\ handled' = "status"
    /\ typedBefore' = <<>>
    /\ UNCHANGED <<now, alive, submits>>
    /\ UNCHANGED storeVars

\* randomSentenceReceivedMsg; the empty sentence is the store's error
SentenceReceived(sentence) ==
    /\ Deliverable("sentence")
    /\ m' = [m EXCEPT !.textToType = sentence]
    /\ pending' = Dispatch("sentence", NoCmd)
    /\ handled' = "sentence"
    /\ typedBefore' = <<>>
    /\ UNCHANGED <<now, alive, submits>>
    /\ UNCHANGED storeVars

\* sentenceSubmittedMsg
SubmittedReceived(success) ==
    /\ Deliverable("submitted")
    /\ pending' = Dispatch("submitted", IF success THEN "board" ELSE NoCmd)
    /\ handled' = "submitted"
    /\ typedBefore' = <<>>
    /\ UNCHANGED <<m, now, alive, submits>>
    /\ UNCHANGED storeVars

\* leaderboardReceivedMsg
LeaderboardReceived ==
    /\ Deliverable("board")
    /\ pending' = Dispatch("board", IF m.hasUserAlreadyDoneDailyChallenge
                                    THEN "poll" ELSE NoCmd)
    /\ handled' = "board"
    /\ typedBefore' = <<>>
    /\ UNCHANGED <<m, now, alive, submits>>
    /\ UNCHANGED storeVars

\* leaderboardPollMsg
LeaderboardPoll ==
    /\ Deliverable("poll")
    /\ pending' = Dispatch("poll", IF m.hasUserAlreadyDoneDailyChallenge
                                   THEN "board" ELSE NoCmd)
    /\ handled' = "poll"
    /\ typedBefore' = <<>>
    /\ UNCHANGED <<m, now, alive, submits>>
    /\ UNCHANGED storeVars

\* tickMsg
Tick ==
    /\ Deliverable("tick")
    /\ LET r == UpdateTick(m, now)
       IN  /\ m' = r.m
           /\ pending' = Dispatch("tick", r.cmd)
           /\ submits' = IF r.cmd = "submitted" THEN Append(submits, SubmitCall(r.m))
                         ELSE submits
    /\ handled' = "tick"
    /\ typedBefore' = <<>>
    /\ UNCHANGED <<now, alive>>
    /\ UNCHANGED storeVars

\* tea.KeyMsg
Key(key, input) ==
    /\ alive
    /\ LET r == UpdateKey(m, key, input, now)
       IN  /\ m' = r.m
           /\ alive' = (r.cmd # Quit)
    /\ handled' = key
    /\ typedBefore' = m.textUserTyped
    /\ UNCHANGED <<pending, now, submits>>
    /\ UNCHANGED storeVars

\* a second passes
ClockAdvance ==
    /\ alive
    /\ now < MaxClock
    /\ now' = now + 1
    /\ UNCHANGED <<m, pending, alive, handled, typedBefore, submits>>
    /\ UNCHANGED storeVars

\* a start that arms two tick timers
ConnInitTwoTicks ==
    /\ today = 1
    /\ sentenceKV = NoKeys
    /\ storeKV = NoKeys
    /\ proc = [p \in Procs |-> Idle]
    /\ calls = 0
    /\ overlapped = [p \in Procs |-> {}]
    /\ m = NewModelWithStyles
    /\ pending = [NoPending EXCEPT !["status"] = 1, !["sentence"] = 1, !["tick"] = 2]
    /\ now = 0
    /\ alive = TRUE
    /\ handled = NoCmd
    /\ typedBefore = <<>>
    /\ submits = <<>>

\* the program starts: model.Init batches the status fetch, the sentence
\* fetch and the first tick
ConnInit ==
    /\ today = 1
    /\ sentenceKV = NoKeys
    /\ storeKV = NoKeys
    /\ proc = [p \in Procs |-> Idle]
    /\ calls = 0
    /\ overlapped = [p \in Procs |-> {}]
    /\ m = NewModelWithStyles
    /\ pending = [NoPending EXCEPT !["status"] = 1, !["sentence"] = 1, !["tick"] = 1]
    /\ now = 0
    /\ alive = TRUE
    /\ handled = NoCmd
    /\ typedBefore = <<>>
    /\ submits = <<>>

\* what the text input can hold after a key press: it takes keys only until
\* the username is set
InputsAfterKey == IF m.userSetUsername THEN {m.usernameInput} ELSE NameInputs

ConnNext ==
    \/ \E played \in BOOLEAN : StatusReceived(played)
    \/ \E sentence \in Targets \cup {<<>>} : SentenceReceived(sentence)
    \/ \E success \in BOOLEAN : SubmittedReceived(success)
    \/ LeaderboardReceived
    \/ LeaderboardPoll
    \/ Tick
    \/ \E key \in Keys : \E input \in InputsAfterKey : Key(key, input)
    \/ ClockAdvance

SpecConn == ConnInit /\ [][ConnNext]_vars

----------------------------------------------------------------------------
(* Properties of the connection (checked under SpecConn) *)

\* C10: a submission is issued only by a tick, and only at a tick at which
\* the typed text equals the target character for character; while some
\* position of the typed text differs from the target, no step issues one
C10_SubmitOnlyOnExactMatch ==
    [][Len(submits') > Len(submits) =>
           /\ handled' = "tick"
           /\ m'.textUserTyped = m'.textToType
           /\ m.textUserTyped = m.textToType
           /\ submits' = Append(submits, SubmitCall(m'))]_vars

\* a submission was issued for a target with a line break in it
C10_Witness ==
    /\ Len(submits) >= 1
    /\ Len(submits[1].target) = 3
    /\ submits[1].typed = submits[1].target

\* the step is Update handling the key press key / a tick
KeyStep(key) == handled' = key /\ now' = now
TickStep == handled' = "tick" /\ now' = now

\* the fields of the typing session
Session(mm) == <<mm.textToType, mm.textUserTyped, mm.startTime,
                 mm.didUserStartTyping, mm.WPM>>

\* C11: once the typed text equals the target, every later key press
\* (printable character or backspace) leaves the typed text equal to the target
C11_CompletedIsTerminal ==
    [][\A key \in Keys :
           (/\ KeyStep(key)
            /\ m.userSetUsername
            /\ m.textToType # <<>>
            /\ m.textUserTyped = m.textToType)
           => m'.textUserTyped = m'.textToType]_vars

\* C12: in every state the typed text is at most as long as the target
C12_TypedWithinTarget ==
    Len(m.textUserTyped) <= Len(m.textToType)

\* C13: a tick of a started session with elapsed time > 0 sets WPM to
\* floor(correctChars / 5 / elapsedMinutes), which for whole seconds is
\* floor(12 * correctChars / elapsedSeconds)
C13_WpmIsExactFloor ==
    [][(TickStep /\ m.didUserStartTyping /\ now > m.startTime)
           => m'.WPM = (12 * totalCorrectCharactersTyped(m)) \div (now - m.startTime)]_vars

C15_StartTimeRecordedOnce ==
    [][m.startTime > 0 => m'.startTime = m.startTime]_vars

\* C16: a single-character key that is no letter, digit, punctuation or
\* whitespace leaves every field of the typing session unchanged
C16_UnprintableKeyIsNoOp ==
    [][(KeyStep("+") /\ m.userSetUsername /\ ~m.hasUserAlreadyDoneDailyChallenge)
           => Session(m') = Session(m)]_vars

\* C17: a backspace while the typed text is empty leaves every field of the
\* typing session unchanged, the session being still not started included
C17_BackspaceOnEmptyIsNoOp ==
    [][(KeyStep("backspace") /\ m.userSetUsername /\ m.textUserTyped = <<>>)
           => Session(m') = Session(m)]_vars

----------------------------------------------------------------------------
(* Properties of the coordinator (checked under SpecConn) *)

\* C21: over the whole life of a connection, in every order of key presses,
\* ticks and responses, at most one SubmitSentence call is issued
C21_AtMostOneSubmit ==
    Len(submits) <= 1

\* the submission was issued and the status response, arriving after it,
\* cleared the already-played flag while typed still equals the target
C21_Witness ==
    /\ Len(submits) = 1
    /\ pending["status"] = 0
    /\ ~m.hasUserAlreadyDoneDailyChallenge
    /\ m.textUserTyped = m.textToType

\* C22: once the status response has been handled and the already-played
\* flag is set (the leaderboard is shown), the flag stays set and no step
\* issues a SubmitSentence call
C22_NoSubmitAfterPlayed ==
    [][(pending["status"] = 0 /\ m.hasUserAlreadyDoneDailyChallenge)
           => (m'.hasUserAlreadyDoneDailyChallenge /\ submits' = submits)]_vars

\* a tick of a started session found the typed text equal to the target
\* after the status response had set the flag, and nothing was submitted
C22_Witness ==
    /\ handled = "tick"
    /\ pending["status"] = 0
    /\ m.hasUserAlreadyDoneDailyChallenge
    /\ m.didUserStartTyping
    /\ m.textToType # <<>>
    /\ m.textUserTyped = m.textToType
    /\ submits = <<>>

\* the step is Update handling a sentenceSubmittedMsg that reports a failure
SubmitFailedStep ==
    /\ handled' = "submitted"
    /\ pending'["submitted"] = pending["submitted"] - 1
    /\ pending'["board"] = pending["board"]

\* C23: after a failed SubmitSentence call the connection does not show the
\* leaderboard and a tick is in flight that can issue the submission again
C23_FailedSubmitStaysSubmitting ==
    [][SubmitFailedStep
           => (~m'.hasUserAlreadyDoneDailyChallenge /\ pending'["tick"] > 0)]_vars

\* C24: while the leaderboard is shown, a leaderboard read or its poll timer
\* is in flight, or a response that can start one is still to come
C24_ViewingKeepsReading ==
    (alive /\ m.hasUserAlreadyDoneDailyChallenge)
        => pending["board"] + pending["poll"] + pending["status"] + pending["submitted"] > 0

\* C28: at most one tick is in flight; the tick handled with the
\* already-played flag true afterwards (the submitting tick included)
\* schedules no tick; and once no tick is in flight none is ever again
C28_TickChainEnds ==
    [][ /\ pending["tick"] <= 1
        /\ pending'["tick"] <= 1
        /\ (TickStep /\ m'.hasUserAlreadyDoneDailyChallenge)
               => pending'["tick"] = 0
        /\ pending["tick"] = 0 => pending'["tick"] = 0 ]_vars

\* C28 witness: the tick that issued the submission was the last one, and
\* the submission's response has been handled since
C28_Witness ==
    /\ handled = "submitted" /\ pending["tick"] = 0
    /\ Len(submits) = 1 /\ m.hasUserAlreadyDoneDailyChallenge

----------------------------------------------------------------------------
(* SpecOld: one connection of the older terminal program in                 *)
(* src/unnamed/part_000.  Its Update differs from the newer one in three    *)
(* cases: the username check, the tick (no test of the elapsed time) and    *)
(* the poll message (it batches a read and a new timer); the other cases    *)
(* are the same code and use the same actions.                              *)

MaxInFlight == 2   \* leaderboard reads and poll timers in flight at once

\* int(x) for x = +Inf or NaN is implementation-defined: the minimum of int
\* on amd64, the maximum (or 0 for NaN) on arm64; the extremes are written
\* at the width of the model's integers
ImplementationDefinedInts == {-2147483647, 0, 2147483647}

\* case tickMsg; undefined is the outcome of the conversion at elapsed zero
OldUpdateTick(mm, t, undefined) ==
    LET elapsed == t - mm.startTime
        m1 == IF mm.didUserStartTyping
              THEN [mm EXCEPT !.WPM = IF elapsed > 0
                                      THEN wordsPerMinute(totalCorrectCharactersTyped(mm), elapsed)
                                      ELSE undefined]
              ELSE mm
    IN  IF mm.didUserStartTyping /\ didUserFinishTyping(m1)
           /\ ~m1.hasUserAlreadyDoneDailyChallenge
        THEN [m |-> [m1 EXCEPT !.hasUserAlreadyDoneDailyChallenge = TRUE], cmd |-> "submitted"]
        ELSE [m |-> m1,
              cmd |-> IF ~m1.hasUserAlreadyDoneDailyChallenge THEN "tick" ELSE NoCmd]

OldUpdateKeyUsername(mm, key, input) ==
    IF key = "enter"
    THEN LET username == TrimSpace(mm.usernameInput)
         IN  IF Len(username) >= 6
             THEN [mm EXCEPT !.username = username, !.userSetUsername = TRUE]
             ELSE mm
    ELSE [mm EXCEPT !.usernameInput = input]

\* case tea.KeyMsg
OldUpdateKey(mm, key, input, t) ==
    IF key = "ctrl+c" THEN [m |-> mm, cmd |-> Quit]
    ELSE IF ~mm.userSetUsername
    THEN [m |-> OldUpdateKeyUsername(mm, key, input), cmd |-> NoCmd]
    ELSE IF key = "backspace" THEN [m |-> UpdateKeyBackspace(mm), cmd |-> NoCmd]
    ELSE IF key \in CharKeys THEN [m |-> UpdateKeyChar(mm, key, t), cmd |-> NoCmd]
    ELSE [m |-> mm, cmd |-> NoCmd]

\* leaderboardPollMsg: tea.Batch(fetchTodaysLeaderBoardCmd(), leaderboardPollCmd())
OldLeaderboardPoll ==
    /\ Deliverable("poll")
    /\ pending["board"] + pending["poll"] <= MaxInFlight
    /\ pending' = IF m.hasUserAlreadyDoneDailyChallenge
                  THEN [pending EXCEPT !["board"] = @ + 1]
                  ELSE [pending EXCEPT !["poll"] = @ - 1]
    /\ handled' = "poll"
    /\ typedBefore' = <<>>
    /\ UNCHANGED <<m, now, alive, submits>>
    /\ UNCHANGED storeVars

\* tickMsg
OldTick(undefined) ==
    /\ Deliverable("tick")
    /\ LET r == OldUpdateTick(m, now, undefined)
       IN  /\ m' = r.m
           /\ pending' = Dispatch("tick", r.cmd)
           /\ submits' = IF r.cmd = "submitted" THEN Append(submits, SubmitCall(r.m))
                         ELSE submits
    /\ handled' = "tick"
    /\ typedBefore' = <<>>
    /\ UNCHANGED <<now, alive>>
    /\ UNCHANGED storeVars

\* tea.KeyMsg
OldKey(key, input) ==
    /\ alive
    /\ LET r == OldUpdateKey(m, key, input, now)
       IN  /\ m' = r.m
           /\ alive' = (r.cmd # Quit)
    /\ handled' = key
    /\ typedBefore' = m.textUserTyped
    /\ UNCHANGED <<pending, now, submits>>
    /\ UNCHANGED storeVars

\* the outcomes of the tick's conversion: one of the implementation-defined
\* values when it is undefined, immaterial otherwise
TickOutcomes ==
    IF m.didUserStartTyping /\ now = m.startTime THEN ImplementationDefinedInts ELSE {0}

OldNext ==
    \/ \E played \in BOOLEAN : StatusReceived(played)
    \/ \E sentence \in Targets \cup {<<>>} : SentenceReceived(sentence)
    \/ \E success \in BOOLEAN : SubmittedReceived(success)
    \/ LeaderboardReceived
    \/ OldLeaderboardPoll
    \/ \E undefined \in TickOutcomes : OldTick(undefined)
    \/ \E key \in Keys : \E input \in InputsAfterKey : OldKey(key, input)
    \/ ClockAdvance

SpecOld == ConnInit /\ [][OldNext]_vars

\* C25: no key reaches the typing test before a username is accepted, and
\* every SubmitSentence call carries a username of 6 to 20 characters that
\* are letters, digits, '_' or '-'
C25_UsernameValidBeforeTyping ==
    /\ ~m.userSetUsername => (m.textUserTyped = <<>> /\ ~m.didUserStartTyping)
    /\ \A i \in 1..Len(submits) : validUsername(submits[i].username)

\* C27: handling a poll message does not raise the number of leaderboard
\* reads and poll timers in flight
C27_PollTimersDoNotMultiply ==
    [][(handled' = "poll" /\ now' = now)
           => pending'["board"] + pending'["poll"] <= pending["board"] + pending["poll"]]_vars

----------------------------------------------------------------------------
(* SpecType and SpecFeed: the typing test of one connection, for every      *)
(* target up to MaxTargetLen characters.  The username is set and the       *)
(* sentence has arrived; SpecType presses any keys, SpecFeed presses the    *)
(* target's characters other than line breaks, in order.                    *)

MaxTargetLen == 5
TargetChars == {"a", "\n"}
TypeTargets == UNION {[1..n -> TargetChars] : n \in 1..MaxTargetLen}
PlayerName == <<"p", "l", "a", "y", "e", "r">>

TypeInit ==
    /\ today = 1
    /\ sentenceKV = NoKeys
    /\ storeKV = NoKeys
    /\ proc = [p \in Procs |-> Idle]
    /\ calls = 0
    /\ overlapped = [p \in Procs |-> {}]
    /\ \E target \in TypeTargets :
           m = [NewModelWithStyles EXCEPT !.userSetUsername = TRUE,
                                          !.username = PlayerName,
                                          !.usernameInput = PlayerName,
                                          !.textToType = target]
    /\ pending = [NoPending EXCEPT !["status"] = 1, !["tick"] = 1]
    /\ now = 0
    /\ alive = TRUE
    /\ handled = "sentence"
    /\ typedBefore = <<>>
    /\ submits = <<>>

TypeNext == \E key \in Keys : Key(key, m.usernameInput)

SpecType == TypeInit /\ [][TypeNext]_vars

\* the characters of s other than line breaks, in order
RECURSIVE NonBreaks(_)
NonBreaks(s) ==
    IF s = <<>> THEN <<>>
    ELSE IF Head(s) = "\n" THEN NonBreaks(Tail(s))
    ELSE <<Head(s)>> \o NonBreaks(Tail(s))

\* the user presses the next character of the target that is no line break
FeedNext ==
    LET fed == Len(NonBreaks(m.textUserTyped))
        toFeed == NonBreaks(m.textToType)
    IN  /\ fed < Len(toFeed)
        /\ Key(toFeed[fed + 1], m.usernameInput)

SpecFeed == TypeInit /\ [][FeedNext]_vars

\* renderTypingTest: the class of every target position, from position i on
RECURSIVE renderFrom(_, _, _, _, _)
renderFrom(typed, target, i, foundError, highlightNextAsCurrent) ==
    IF i > Len(target) THEN <<>>
    ELSE IF target[i] = "\n"
    THEN <<"break">> \o renderFrom(typed, target, i + 1, foundError,
                                    highlightNextAsCurrent \/ i = Len(typed) + 1)
    ELSE IF highlightNextAsCurrent
    THEN <<"current">> \o renderFrom(typed, target, i + 1, foundError, FALSE)
    ELSE IF i <= Len(typed)
    THEN IF foundError \/ typed[i] # target[i]
         THEN <<"incorrect">> \o renderFrom(typed, target, i + 1, TRUE, FALSE)
         ELSE <<"correct">> \o renderFrom(typed, target, i + 1, FALSE, FALSE)
    ELSE IF i = Len(typed) + 1
    THEN <<"current">> \o renderFrom(typed, target, i + 1, foundError, FALSE)
    ELSE <<"untyped">> \o renderFrom(typed, target, i + 1, foundError, FALSE)

\* renderTypingTest whose highlightNextAsCurrent starts out true
renderTypingTestCarrySet(mm) == renderFrom(mm.textUserTyped, mm.textToType, 1, FALSE, TRUE)

renderTypingTest(mm) == renderFrom(mm.textUserTyped, mm.textToType, 1, FALSE, FALSE)

----------------------------------------------------------------------------
(* SpecDay: one connection of the newer program together with the store     *)
(* over a date rollover.  The connection's commands run the store calls     *)
(* (callers 1 of the store), the daily cron job runs InsertSentence         *)
(* (caller 2).  The clock of the typing test stands still: WPM plays no     *)
(* part here.                                                               *)

ConnUser == "u1"
ConnCaller == 1
CronCaller == 2
DayKeys == {"a", "h", "backspace", "enter"}

\* the process has started: InitInMemoryStore found no sentence for today
\* and either published one or failed to compose it; no connection yet
DayInit ==
    /\ today = 1
    /\ \/ sentenceKV = NoKeys /\ storeKV = NoKeys
       \/ \E sentence \in Targets :
              /\ sentenceKV = setValue(NoKeys, 1, sentence)
              /\ storeKV = setValue(NoKeys, 1, DBEntry(1, <<>>))
    /\ proc = [p \in Procs |-> Idle]
    /\ calls = 0
    /\ overlapped = [p \in Procs |-> {}]
    /\ NoConnection

\* a user connects: the model is built and model.Init batches its commands
DayConnect ==
    /\ ~alive
    /\ handled = NoCmd
    /\ m' = NewModelWithStyles
    /\ pending' = [NoPending EXCEPT !["status"] = 1, !["sentence"] = 1, !["tick"] = 1]
    /\ alive' = TRUE
    /\ UNCHANGED <<now, handled, typedBefore, submits>>
    /\ UNCHANGED storeVars

\* the cron job of midnight has not published the new date's sentence yet
CronDue == today > 1 /\ sentenceKV[today] = <<>> /\ proc[CronCaller].pc = "idle"

\* getRandomSentenceCmd: GetTodaysSentence and its message
DaySentence ==
    SentenceReceived(GetTodaysSentence(sentenceKV, getCurrentDateID).sentence)

\* fetchUserDailyChallengeStatusCmd: GetUserChallengeStatus and its message
DayStatus ==
    StatusReceived(GetUserChallengeStatus(storeKV, getCurrentDateID, ConnUser).played)

\* submitSentenceCmd: SubmitSentence starts with the arguments of the call
DaySubmitStart ==
    /\ pending["submitted"] > 0
    /\ proc[ConnCaller].pc = "idle"
    /\ SubmitRead(ConnCaller, ConnUser, submits[Len(submits)].username,
                  submits[Len(submits)].wpm)

\* submitSentenceCmd: the message once SubmitSentence has returned
DaySubmitted ==
    /\ proc[ConnCaller].pc = "done"
    /\ SubmittedReceived(proc[ConnCaller].ret = Nil)

DayNext ==
    \/ DayConnect
    \/ Midnight
    \/ \E sentence \in Targets : CronDue /\ InsertSetSentence(CronCaller, sentence)
    \/ InsertRead(CronCaller)
    \/ InsertWrite(CronCaller)
    \/ DaySentence
    \/ DayStatus
    \/ DaySubmitStart
    \/ SubmitWrite(ConnCaller)
    \/ DaySubmitted
    \/ LeaderboardReceived
    \/ LeaderboardPoll
    \/ Tick
    \/ \E key \in DayKeys : \E input \in {PlayerName} : Key(key, input)

SpecDay == DayInit /\ [][DayNext]_vars

\* C26: once the sentence response has been handled, the connection's
\* target is not empty
C26_TargetNeverEmpty ==
    (alive /\ pending["sentence"] = 0) => m.textToType # <<>>

\* C29: every entry stored under a date comes from a submission whose
\* target was the sentence published for that date (stated for sessions
\* that loaded a sentence: the target of the submission is not empty)
C29_EntriesBelongToTheirDate ==
    \A d \in Dates :
        (Entries(storeKV, d) # <<>> /\ submits # <<>> /\ submits[1].target # <<>>)
            => sentenceKV[d] = <<submits[1].target>>

----------------------------------------------------------------------------
(* The SQLite store (src/unnamed/part_001).  One row of table sentences per *)
(* date holds both the sentence and the JSON text of the DBEntry: the row   *)
(* of date d is sentenceKV[d] together with storeKV[d].  The JSON text is   *)
(* kept as the DBEntry it encodes (strings and ints, which json.Marshal and *)
(* json.Unmarshal carry over unchanged).  A call runs in one transaction    *)
(* or one statement and is one step.                                        *)

FailedToGetValue == "failed to get value"
FailedToUpdateValue == "failed to update value"
FailedToInsertSentence == "failed to insert sentence"

\* a row of table sentences with primary key dateId exists
SqlRowExists(dateId) == sentenceKV[dateId] # <<>>

\* SubmitSentence, lines 146-200.  updated is the outcome of UPDATE and
\* Commit, which fail when another connection holds the database lock; the
\* deferred Rollback then leaves the row as it was.
SqlSubmitSentence(p, userID, username, wpm, updated) ==
    /\ CanStart(p)
    /\ LET dateId == getCurrentDateID
           call == [Idle EXCEPT !.pc = "done", !.op = "submit",
                                !.dateId = dateId, !.userID = userID,
                                !.hadEntry = HasEntry(storeKV, dateId, userID)]
       IN  IF ~SqlRowExists(dateId)
           THEN /\ proc' = [proc EXCEPT ![p] =
                               [call EXCEPT !.ret = FailedToGetValue]]
                /\ UNCHANGED storeKV
           ELSE LET unmarshalledValue == storeKV[dateId][1]
                IN  \* lines 171-175: the loop over UserStats prints a line
                    \* for an entry of userID and the call goes on
                    IF ~updated
                    THEN /\ proc' = [proc EXCEPT ![p] =
                                        [call EXCEPT !.ret = FailedToUpdateValue]]
                         /\ UNCHANGED storeKV
                    ELSE /\ proc' = [proc EXCEPT ![p] = call]
                         /\ storeKV' = setValue(storeKV, dateId,
                                SubmitAppended(unmarshalledValue, userID,
                                               username, wpm))
    /\ calls' = calls + 1
    /\ UNCHANGED <<today, sentenceKV, overlapped>>
    /\ UNCHANGED connVars

\* InsertSentence, lines 202-226: INSERT fails on an existing primary key
SqlInsertSentence(p, sentence) ==
    /\ CanStart(p)
    /\ LET dateId == getCurrentDateID
           call == [Idle EXCEPT !.pc = "done", !.op = "insert",
                                !.dateId = dateId]
       IN  IF SqlRowExists(dateId)
           THEN /\ proc' = [proc EXCEPT ![p] =
                               [call EXCEPT !.ret = FailedToInsertSentence]]
                /\ UNCHANGED <<sentenceKV, storeKV>>
           ELSE /\ proc' = [proc EXCEPT ![p] = call]
                /\ sentenceKV' = setValue(sentenceKV, dateId, sentence)
                /\ storeKV' = setValue(storeKV, dateId, DBEntry(dateId, <<>>))
    /\ calls' = calls + 1
    /\ UNCHANGED <<today, overlapped>>
    /\ UNCHANGED connVars

\* InitDataBase: the table exists and holds no row
SqlInit == StoreInit

SqlNext ==
    \/ \E p \in Procs, u \in UserIDs, n \in Usernames, updated \in BOOLEAN :
            SqlSubmitSentence(p, u, n, SessionWpm(p), updated)
    \/ \E p \in Procs, s \in Sentences : SqlInsertSentence(p, s)
    \/ Midnight

SpecSql == SqlInit /\ [][SqlNext]_vars

\* C30: a SubmitSentence of the SQLite store for a userID that already has
\* an entry under the current date returns an error and leaves that date's
\* record exactly as it was.
C30_SqlDuplicateRejected ==
    [][\A p \in Procs :
        ( /\ proc'[p] # proc[p] /\ proc'[p].op = "submit"
          /\ proc'[p].hadEntry )
        => /\ proc'[p].ret # Nil
           /\ storeKV' = storeKV]_vars

----------------------------------------------------------------------------
(* SpecGen: sentence composition, GetLongSentence of src/unnamed/part_000   *)
(* (the loop of src/unnamed/part_001 is the same code).  A quote is the     *)
(* number of words strings.Fields finds in it; joining quotes with " "      *)
(* merges no words, so totalWords is the sum over the quotes fetched.  The  *)
(* loop test and the call of getRandomSentence are one step each; the       *)
(* goroutine that runs the loop keeps running (weak fairness).              *)

WordsWanted == 38
MaxFetches == 6
\* the words of one upstream quote: none, some, many
QuoteWords == {0, 9, 20}
FailedToGetRandomSentence == "failed to get random sentence"
\* what getRandomSentence returns: an error (nil quote) or a quote
FetchOutcomes ==
    {[err |-> FailedToGetRandomSentence, words |-> 0]}
        \cup {[err |-> Nil, words |-> w] : w \in QuoteWords}
GenCaller == 1

\* GetLongSentence, lines 220-221: sentences and totalWords start out empty
GenCall(p) ==
    /\ CanStart(p)
    /\ proc' = [proc EXCEPT ![p] = [Idle EXCEPT !.pc = "gen_test", !.op = "generate"]]
    /\ calls' = calls + 1
    /\ UNCHANGED <<today, sentenceKV, storeKV, overlapped>>
    /\ UNCHANGED connVars

\* GetLongSentence, line 223 and lines 233-266: the loop test; past the loop
\* the sentence is cut to WordsWanted words and returned
GenTest(p) ==
    /\ proc[p].pc = "gen_test"
    /\ IF proc[p].totalWords < WordsWanted
       THEN proc' = [proc EXCEPT ![p].pc = "gen_fetch"]
       ELSE proc' = [proc EXCEPT ![p].pc = "done", ![p].ret = Nil,
                                 ![p].totalWords = WordsWanted]
    /\ UNCHANGED <<today, sentenceKV, storeKV, calls, overlapped>>
    /\ UNCHANGED connVars

\* GetLongSentence, lines 224-230: one getRandomSentence call.  fetches is
\* len(sentences), counted up to MaxFetches.
GenFetch(p, got) ==
    /\ proc[p].pc = "gen_fetch"
    /\ IF got.err # Nil
       THEN proc' = [proc EXCEPT ![p].pc = "done", ![p].ret = got.err]
       ELSE proc' = [proc EXCEPT
                ![p].pc = "gen_test",
                ![p].totalWords = @ + got.words,
                ![p].fetches = IF @ < MaxFetches THEN @ + 1 ELSE @]
    /\ UNCHANGED <<today, sentenceKV, storeKV, calls, overlapped>>
    /\ UNCHANGED connVars

GenInit == StoreInit

GenNext ==
    \/ GenCall(GenCaller)
    \/ GenTest(GenCaller)
    \/ \E got \in FetchOutcomes : GenFetch(GenCaller, got)

SpecGen == GenInit /\ [][GenNext]_vars /\ WF_vars(GenNext)

\* C33: every call of GetLongSentence returns, a sentence or an error,
\* whatever the upstream answers
C33_CompositionTerminates ==
    (proc[GenCaller].op = "generate" /\ proc[GenCaller].pc = "gen_test")
        ~> (proc[GenCaller].pc = "done")

----------------------------------------------------------------------------
(* Properties of the typing test (checked under SpecType and SpecFeed) *)

\* C18: a backspace right after an accepted keystroke, pressed while the
\* typed text was shorter than the target, restores the typed text to what
\* it was before the keystroke, an auto-inserted line break included
C18_BackspaceUndoesKeystroke ==
    [][(/\ KeyStep("backspace")
        /\ handled \in {"a", "h"}
        /\ m.userSetUsername
        /\ ~m.hasUserAlreadyDoneDailyChallenge
        /\ Len(typedBefore) < Len(m.textToType))
           => m'.textUserTyped = typedBefore]_vars

\* a backspace has removed a character together with the line break that
\* was inserted before it
C18_Witness ==
    /\ handled = "backspace"
    /\ Len(typedBefore) = Len(m.textUserTyped) + 2
    /\ typedBefore[Len(typedBefore) - 1] = "\n"

\* C19: once every character of the target other than its line breaks has
\* been pressed, in order and with no other key, the typed text equals the
\* target
C19_FeedingReachesTarget ==
    (/\ NonBreaks(m.textToType) # <<>>
     /\ Len(NonBreaks(m.textUserTyped)) = Len(NonBreaks(m.textToType)))
        => m.textUserTyped = m.textToType

\* the first position at which typed differs from target, 0 if there is none
FirstDifference(typed, target) ==
    LET differing == {i \in 1..Len(typed) : i > Len(target) \/ typed[i] # target[i]}
    IN  IF differing = {} THEN 0
        ELSE CHOOSE i \in differing : \A j \in differing : i <= j

\* C20: in the overlay every typed position before the first difference
\* between typed and target is Correct and every typed position at or after
\* it is Incorrect, whether or not its own character matches (positions
\* holding a line break of the target carry no class)
C20_OverlayErrorBoundary ==
    LET typed == m.textUserTyped
        target == m.textToType
        boundary == FirstDifference(typed, target)
        overlay == renderTypingTest(m)
    IN  \A i \in 1..Len(typed) :
            (i <= Len(target) /\ target[i] # "\n")
                => overlay[i] = (IF boundary = 0 \/ i < boundary
                                 THEN "correct" ELSE "incorrect")

\* the target positions at or after index len(typed) that hold no line break
\* (positions count from 1 here: index len(typed) is position Len(typed) + 1)
OpenPositions(typed, target) ==
    {j \in (Len(typed) + 1)..Len(target) : target[j] # "\n"}

====
